---- MODULE Spec2Model ----
(***************************************************************************)
(* A model of the DNS server of codecrafters-dns-server-rust:              *)
(*   - the wire codec of src/dns_hdr.rs (Flags, DNSHdr, Query, Answer),    *)
(*     computed byte by byte as the code computes it;                      *)
(*   - the name decompression DNSHdr::decompress_names, one loop           *)
(*     iteration per step;                                                 *)
(*   - the request loop DNSServer::start of src/dns_server.rs with its     *)
(*     blocking upstream Resolver::resolve_a.                              *)
(* Bytes are the integers 0..255, a buffer is a sequence of bytes, a label *)
(* is a sequence of bytes and a name is a sequence of labels.              *)
(***************************************************************************)
EXTENDS Integers, Sequences, FiniteSets, TLC

VARIABLES
    \* ---- DNSServer (src/dns_server.rs)
    pc,         \* "recv" (blocked in socket.recv_from), "resolving" (blocked in
                \* resolver.socket.recv_from), "panicked", "stopped"
    resolver,   \* TRUE iff DNSServer.resolver is Some(_)
    rr_db,      \* DNSServer.rr_db: domain (bytes) -> [ttl, data]
    inbox,      \* the datagram the last recv_from of the loop returned (&buf[..size])
    request,    \* the decoded request being handled, or NoMsg
    todo,       \* the questions the filter of line 142 has still to yield, in order
    ans,        \* the vector `ans` of line 139 so far: <<[q, ttl, ip]>>
    upstream,   \* datagrams handed to resolver.socket.send while handling `request`,
                \* each from its third byte on (bytes 0-1 are the id of line 23)
    replies,    \* datagrams resolver.socket.recv_from returned while handling `request`
    outbox,     \* the response handed to socket.send_to for `request`, <<>> if none
    \* ---- codec round trip (src/dns_hdr.rs)
    msg, wire, decoded,
    \* ---- DNSHdr::decompress_names followed by Query::from_bytes
    buf, ptr, debuf, dpc, steps, names,
    \* ---- Flags::compress_u16 followed by Flags::parse_flags
    fval,       \* the Flags value compress_u16 is called on (seven u8 fields)
    word,       \* what compress_u16 returned for it, -1 before the call
    unpacked    \* what parse_flags made of the two bytes of word, or NoDec

svars == <<pc, resolver, rr_db, inbox, request, todo, ans, upstream, replies, outbox>>
cvars == <<msg, wire, decoded>>
dvars == <<buf, ptr, debuf, dpc, steps, names>>
fvars == <<fval, word, unpacked>>
vars == <<pc, resolver, rr_db, inbox, request, todo, ans, upstream, replies, outbox,
          msg, wire, decoded, buf, ptr, debuf, dpc, steps, names, fval, word, unpacked>>

-----------------------------------------------------------------------------
(* Fixed-width integer helpers.                                            *)

RECURSIVE BitOr(_, _)
BitOr(a, b) ==
    IF a = 0 THEN b
    ELSE IF b = 0 THEN a
    ELSE (IF a % 2 = 1 \/ b % 2 = 1 THEN 1 ELSE 0) + 2 * BitOr(a \div 2, b \div 2)

RECURSIVE BitAnd(_, _)
BitAnd(a, b) ==
    IF a = 0 \/ b = 0 THEN 0
    ELSE (a % 2) * (b % 2) + 2 * BitAnd(a \div 2, b \div 2)

\* x << n on a u8: the bits shifted past bit 7 are lost.
Shl8(x, n) == (x * (2 ^ n)) % 256

put_u8(v) == <<v % 256>>
put_u16(v) == <<(v \div 256) % 256, v % 256>>

\* A u32 is kept as its two 16-bit halves <<high, low>>, the value being
\* high * 65536 + low: every u32 is representable and none is truncated.
U32(high, low) == <<high, low>>
put_u32(v) == put_u16(v[1]) \o put_u16(v[2])

Drop(s, n) == SubSeq(s, n + 1, Len(s))
Take(s, n) == SubSeq(s, 1, n)

RECURSIVE Concat(_)
Concat(ss) == IF ss = <<>> THEN <<>> ELSE Head(ss) \o Concat(Tail(ss))

\* A parser result: Ok((rest, val)) or Err(_).
Ok(rest, val) == [ok |-> TRUE, rest |-> rest, val |-> val]
Err == [ok |-> FALSE]

be_u8(i) == IF Len(i) < 1 THEN Err ELSE Ok(Drop(i, 1), i[1])
be_u16(i) == IF Len(i) < 2 THEN Err ELSE Ok(Drop(i, 2), i[1] * 256 + i[2])
be_u32(i) ==
    IF Len(i) < 4 THEN Err
    ELSE Ok(Drop(i, 4), U32(i[1] * 256 + i[2], i[3] * 256 + i[4]))

\* The `?` on a parser result: the error is returned, or the rest goes on
\* with the (rest, value) pair.
Then(r, F(_)) == IF ~r.ok THEN Err ELSE F(r)

\* nom::multi::length_data(f): a count read by f, then that many bytes.
length_data(cnt) ==
    IF ~cnt.ok THEN Err
    ELSE IF cnt.val > Len(cnt.rest) THEN Err
    ELSE Ok(Drop(cnt.rest, cnt.val), Take(cnt.rest, cnt.val))

-----------------------------------------------------------------------------
(* Flags.                                                                  *)

DNS_HDR_SIZE == 12

QUERY == 0
RCode_OK == 0
RCode_NotImplemted == 4
RRType_A == 1
RRClass_IN == 1

\* compress_u16 without the ra bit in the low byte.
compress_u16_NoRa(f) ==
    LET flags_h == BitOr(BitOr(BitOr(BitOr(Shl8(f.qr, 7), Shl8(f.opcode, 3)),
                                     Shl8(f.aa, 2)), Shl8(f.tc, 1)), f.rd)
        flags_l == f.rcode
    IN  (flags_h * 256) + flags_l

compress_u16(f) ==
    LET flags_h == BitOr(BitOr(BitOr(BitOr(Shl8(f.qr, 7), Shl8(f.opcode, 3)),
                                     Shl8(f.aa, 2)), Shl8(f.tc, 1)), f.rd)
        flags_l == BitOr(Shl8(f.ra, 7), f.rcode)
    IN  (flags_h * 256) + flags_l

\* parse_flags without the take(3u8) of the reserved bits: rcode is read from
\* the four bits that follow ra.
parse_flags_NoSkip(i) ==
    IF Len(i) < 2 THEN Err
    ELSE Ok(Drop(i, 2),
            [qr     |-> i[1] \div 128,
             opcode |-> (i[1] \div 8) % 16,
             aa     |-> (i[1] \div 4) % 2,
             tc     |-> (i[1] \div 2) % 2,
             rd     |-> i[1] % 2,
             ra     |-> i[2] \div 128,
             rcode  |-> (i[2] \div 8) % 16])

\* nom::bits over two bytes, most significant bit first: 1,4,1,1,1,1,3,4 bits.
parse_flags(i) ==
    IF Len(i) < 2 THEN Err
    ELSE Ok(Drop(i, 2),
            [qr     |-> i[1] \div 128,
             opcode |-> (i[1] \div 8) % 16,
             aa     |-> (i[1] \div 4) % 2,
             tc     |-> (i[1] \div 2) % 2,
             rd     |-> i[1] % 2,
             ra     |-> i[2] \div 128,
             rcode  |-> i[2] % 16])

-----------------------------------------------------------------------------
(* Names, Query, Answer.                                                   *)

LabelToBytes(l) == put_u8(Len(l)) \o l

RECURSIVE NameToBytes(_)
NameToBytes(name) ==
    IF name = <<>> THEN put_u8(0)
    ELSE LabelToBytes(Head(name)) \o NameToBytes(Tail(name))

Query_to_bytes(q) == NameToBytes(q.name) \o put_u16(q.qtype) \o put_u16(q.qclass)

Answer_to_bytes(a) ==
    NameToBytes(a.name) \o put_u16(a.qtype) \o put_u16(a.qclass) \o put_u32(a.ttl)
        \o put_u16(Len(a.rddata)) \o a.rddata

Answer_new(name, qtype, qclass, ttl, data) ==
    [name |-> name, qtype |-> qtype, qclass |-> qclass, ttl |-> ttl, rddata |-> data]

\* many_till(length_data(be_u8), tag("\x00")): the terminator is tried first,
\* then one label; an input that ends before the terminator is an error.
RECURSIVE parse_labels(_)
parse_labels(i) ==
    IF Len(i) >= 1 /\ i[1] = 0 THEN Ok(Drop(i, 1), <<>>)
    ELSE Then(length_data(be_u8(i)), LAMBDA l :
         Then(parse_labels(l.rest), LAMBDA r :
         Ok(r.rest, <<l.val>> \o r.val)))

ParseQuery(i) ==
    Then(parse_labels(i), LAMBDA n :
    Then(be_u16(n.rest), LAMBDA t :
    Then(be_u16(t.rest), LAMBDA c :
    Ok(c.rest, [name |-> n.val, qtype |-> t.val, qclass |-> c.val]))))

\* Query::from_bytes that stops at the first question it cannot parse.
RECURSIVE Query_from_bytes_Lenient(_, _)
Query_from_bytes_Lenient(i, n) ==
    IF n = 0 THEN Ok(i, <<>>)
    ELSE IF ~ParseQuery(i).ok THEN Ok(i, <<>>)
    ELSE Then(ParseQuery(i), LAMBDA q :
         Then(Query_from_bytes_Lenient(q.rest, n - 1), LAMBDA r :
         Ok(r.rest, <<q.val>> \o r.val)))

\* many_m_n(n, n, ...): exactly n entries, or an error.
RECURSIVE Query_from_bytes(_, _)
Query_from_bytes(i, n) ==
    IF n = 0 THEN Ok(i, <<>>)
    ELSE Then(ParseQuery(i), LAMBDA q :
         Then(Query_from_bytes(q.rest, n - 1), LAMBDA r :
         Ok(r.rest, <<q.val>> \o r.val)))

ParseAnswer(i) ==
    Then(parse_labels(i), LAMBDA n :
    Then(be_u16(n.rest), LAMBDA t :
    Then(be_u16(t.rest), LAMBDA c :
    Then(be_u32(c.rest), LAMBDA l :
    Then(length_data(be_u16(l.rest)), LAMBDA d :
    Ok(d.rest, [name |-> n.val, qtype |-> t.val, qclass |-> c.val,
                ttl |-> l.val, rddata |-> d.val]))))))

RECURSIVE Answer_from_bytes(_, _)
Answer_from_bytes(i, n) ==
    IF n = 0 THEN Ok(i, <<>>)
    ELSE Then(ParseAnswer(i), LAMBDA a :
         Then(Answer_from_bytes(a.rest, n - 1), LAMBDA r :
         Ok(r.rest, <<a.val>> \o r.val)))

-----------------------------------------------------------------------------
(* DNSHdr.                                                                 *)

DNSHdr_new(id, flags, queries, answers) ==
    [id |-> id, flags |-> flags, nscount |-> 0, arcount |-> 0,
     queries |-> queries, answers |-> answers]

to_bytes(m) ==
    put_u16(m.id) \o put_u16(compress_u16(m.flags))
        \o put_u16(Len(m.queries)) \o put_u16(Len(m.answers))
        \o put_u16(m.nscount) \o put_u16(m.arcount)
        \o Concat([k \in 1..Len(m.queries) |-> Query_to_bytes(m.queries[k])])
        \o Concat([k \in 1..Len(m.answers) |-> Answer_to_bytes(m.answers[k])])

from_bytes(i) ==
    IF Len(i) < DNS_HDR_SIZE THEN Err
    ELSE Then(be_u16(i), LAMBDA id :
         Then(parse_flags(id.rest), LAMBDA fl :
         Then(be_u16(fl.rest), LAMBDA qd :
         Then(be_u16(qd.rest), LAMBDA an :
         Then(be_u16(an.rest), LAMBDA ns :
         Then(be_u16(ns.rest), LAMBDA ar :
         Then(Query_from_bytes(ar.rest, qd.val), LAMBDA qs :
         Then(Answer_from_bytes(qs.rest, an.val), LAMBDA as :
         Ok(as.rest,
            [id |-> id.val, flags |-> fl.val, nscount |-> ns.val,
             arcount |-> ar.val, queries |-> qs.val, answers |-> as.val])))))))))

\* std::str::from_utf8(l).is_ok(): well-formed UTF-8, no overlong form, no
\* surrogate, nothing above U+10FFFF.
IsCont(b) == b \in 128..191

RECURSIVE Utf8Valid(_)
Utf8Valid(l) ==
    IF l = <<>> THEN TRUE
    ELSE LET b == l[1] n == Len(l) IN
         IF b < 128 THEN Utf8Valid(Drop(l, 1))
         ELSE IF b \in 194..223
              THEN n >= 2 /\ IsCont(l[2]) /\ Utf8Valid(Drop(l, 2))
         ELSE IF b \in 224..239
              THEN /\ n >= 3
                   /\ l[2] \in (IF b = 224 THEN 160..191 ELSE IF b = 237 THEN 128..159
                                 ELSE 128..191)
                   /\ IsCont(l[3])
                   /\ Utf8Valid(Drop(l, 3))
         ELSE IF b \in 240..244
              THEN /\ n >= 4
                   /\ l[2] \in (IF b = 240 THEN 144..191 ELSE IF b = 244 THEN 128..143
                                 ELSE 128..191)
                   /\ IsCont(l[3]) /\ IsCont(l[4])
                   /\ Utf8Valid(Drop(l, 4))
         ELSE FALSE

RECURSIVE Join(_)
Join(ls) ==
    IF ls = <<>> THEN <<>>
    ELSE IF Len(ls) = 1 THEN ls[1]
    ELSE ls[1] \o <<46>> \o Join(Tail(ls))

\* Query::domain: the labels that are valid UTF-8, joined by "." (byte 46).
domain(q) == Join(SelectSeq(q.name, Utf8Valid))

-----------------------------------------------------------------------------
(* Values the parts of the model that are not running hold.                *)

NoMsg == [ok |-> FALSE]
NoDatagram == <<-1>>
NoDec == [ok |-> FALSE, none |-> TRUE]

ServerOff ==
    /\ pc = "off" /\ resolver = FALSE /\ rr_db = <<>> /\ inbox = NoDatagram
    /\ request = NoMsg
    /\ todo = <<>> /\ ans = <<>> /\ upstream = <<>> /\ replies = <<>> /\ outbox = <<>>
CodecOff == msg = NoMsg /\ wire = <<>> /\ decoded = NoDec
DecompOff ==
    /\ buf = <<>> /\ ptr = 0 /\ debuf = <<>> /\ dpc = "off" /\ steps = 0
    /\ names = NoDec
FlagsOff == fval = NoMsg /\ word = -1 /\ unpacked = NoDec

-----------------------------------------------------------------------------
(* Codec round trip: to_bytes, then from_bytes, on valid messages.         *)

MaxLabel == 63          \* longest label of a valid name
MaxQuestions == 2       \* questions per message
MaxAnswers == 1         \* answers per round-trip message
MaxRdata == 300         \* longest rdata of a round-trip message (> 255: both length bytes)

Fill(n, b) == [k \in 1..n |-> b]

SeqsUpTo(S, n) == UNION {[1..k -> S] : k \in 0..n}

CodecFlags ==
    [qr : 0..1, opcode : {0, 1, 15}, aa : 0..1, tc : 0..1, rd : 0..1, ra : 0..1,
     rcode : {0, 4, 15}]

CodecIds == {0, 43981}

CodecQuestions ==
    { [name |-> <<Fill(MaxLabel, 120), <<105, 111>>>>, qtype |-> 1, qclass |-> 1],
      [name |-> <<<<0, 192>>>>, qtype |-> 65535, qclass |-> 255] }

CodecAnswers ==
    { Answer_new(<<>>, 1, 1, U32(0, 60), <<192, 168, 10, 10>>),
      Answer_new(<<<<0, 192>>, Fill(MaxLabel, 97)>>, 5, 3, U32(65535, 65535),
                 Fill(MaxRdata, 7)) }

CodecMessages ==
    { DNSHdr_new(id, f, qs, as) :
        id \in CodecIds, f \in CodecFlags,
        qs \in SeqsUpTo(CodecQuestions, MaxQuestions),
        as \in SeqsUpTo(CodecAnswers, MaxAnswers) }

InitCodec ==
    /\ msg \in CodecMessages /\ wire = <<>> /\ decoded = NoDec
    /\ ServerOff /\ DecompOff /\ FlagsOff

Encode ==
    /\ wire = <<>>
    /\ wire' = to_bytes(msg)
    /\ UNCHANGED <<msg, decoded>>
    /\ UNCHANGED svars /\ UNCHANGED dvars /\ UNCHANGED fvars

Decode ==
    /\ wire # <<>> /\ decoded = NoDec
    /\ decoded' = from_bytes(wire)
    /\ UNCHANGED <<msg, wire>>
    /\ UNCHANGED svars /\ UNCHANGED dvars /\ UNCHANGED fvars

NextCodec == Encode \/ Decode

SpecCodec == InitCodec /\ [][NextCodec]_vars

\* C6: decoding the encoding of a valid message gives back its id, flags,
\* questions and answers, and leaves no byte unread.
C6_RoundTrip ==
    decoded # NoDec =>
        /\ decoded.ok
        /\ decoded.rest = <<>>
        /\ decoded.val.id = msg.id
        /\ decoded.val.flags = msg.flags
        /\ decoded.val.queries = msg.queries
        /\ decoded.val.answers = msg.answers

\* A message with two questions, a 63-byte label, a 300-byte rdata and every
\* flag field at its largest value has been encoded and decoded.
C6_Witness ==
    /\ decoded # NoDec
    /\ Len(msg.queries) = 2
    /\ msg.queries[1].name[1] = Fill(MaxLabel, 120)
    /\ Len(msg.answers) = 1
    /\ Len(msg.answers[1].rddata) = MaxRdata
    /\ msg.flags = [qr |-> 1, opcode |-> 15, aa |-> 1, tc |-> 1, rd |-> 1, ra |-> 1,
                    rcode |-> 15]

-----------------------------------------------------------------------------
(* DNSServer (src/dns_server.rs).                                          *)

CodecraftersIo ==
    <<99, 111, 100, 101, 99, 114, 97, 102, 116, 101, 114, 115, 46, 105, 111>>
StackoverflowCom ==
    <<115, 116, 97, 99, 107, 111, 118, 101, 114, 102, 108, 111, 119, 46, 99, 111, 109>>

SeedTtl == 60

\* DNSServer::new: the two seed entries of rr_db.
SeedDb ==
    [d \in {CodecraftersIo, StackoverflowCom} |->
        IF d = CodecraftersIo
        THEN [ttl |-> U32(0, SeedTtl), data |-> <<192, 168, 10, 10>>]
        ELSE [ttl |-> U32(0, SeedTtl), data |-> <<192, 168, 10, 20>>]]

\* HashMap::insert.
Insert(db, k, v) == [d \in DOMAIN db \cup {k} |-> IF d = k THEN v ELSE db[d]]

\* A store that is replaced by the forwarded answers instead of extended.
Extend_Fresh(db, as) ==
    [d \in { domain(as[k].q) : k \in 1..Len(as) } |->
        LET last == CHOOSE k \in 1..Len(as) :
                        /\ domain(as[k].q) = d
                        /\ \A j \in 1..Len(as) : domain(as[j].q) = d => j <= k
        IN  [ttl |-> as[last].ttl, data |-> as[last].ip]]

\* rr_db.extend(ans.iter().map(|(q, (ttl, ip))| (q.domain(), (*ttl, *ip)))):
\* the pairs are inserted in order, a later one replacing an earlier one.
RECURSIVE Extend(_, _)
Extend(db, as) ==
    IF as = <<>> THEN db
    ELSE Extend(Insert(db, domain(Head(as).q), [ttl |-> Head(as).ttl, data |-> Head(as).ip]),
                Tail(as))

\* Response flags that keep aa, tc and ra of the request.
ResponseFlags_KeepAll(f, rcode) == [f EXCEPT !.qr = 1, !.rcode = rcode]

\* The response flags: Flags { qr: 1, aa: 0, tc: 0, ra: 0, rcode, ..request.flags }.
ResponseFlags(f, rcode) ==
    [qr |-> 1, opcode |-> f.opcode, aa |-> 0, tc |-> 0, rd |-> f.rd, ra |-> 0,
     rcode |-> rcode]

\* resolver = None (lines 122-136): every question is answered from the entry
\* of the literal key "codecrafters.io".
RECURSIVE AnswersNoResolver(_, _)
AnswersNoResolver(qs, db) ==
    IF qs = <<>> THEN <<>>
    ELSE (IF CodecraftersIo \in DOMAIN db
          THEN <<Answer_new(Head(qs).name, RRType_A, RRClass_IN,
                            db[CodecraftersIo].ttl, db[CodecraftersIo].data)>>
          ELSE <<>>)
         \o AnswersNoResolver(Tail(qs), db)

\* resolver = Some(_) (lines 148-162): every question whose domain is a key.
RECURSIVE AnswersFromDb(_, _)
AnswersFromDb(qs, db) ==
    IF qs = <<>> THEN <<>>
    ELSE (IF domain(Head(qs)) \in DOMAIN db
          THEN <<Answer_new(Head(qs).name, RRType_A, RRClass_IN,
                            db[domain(Head(qs))].ttl, db[domain(Head(qs))].data)>>
          ELSE <<>>)
         \o AnswersFromDb(Tail(qs), db)

\* A filter that lets every question through to the resolver.
IsUnresolved_Always(q, db) == TRUE

\* .filter(|q| !self.rr_db.contains_key(&q.domain())) of line 142.
IsUnresolved(q, db) == domain(q) \notin DOMAIN db

Unresolved(qs, db) == SelectSeq(qs, LAMBDA q : IsUnresolved(q, db))

OkResponse(req, answs) ==
    to_bytes(DNSHdr_new(req.id, ResponseFlags(req.flags, RCode_OK), req.queries, answs))

\* The other-opcode arm answering with rcode OK.
NotImplResponse_Ok(req) == OkResponse(req, <<>>)

NotImplResponse(req) ==
    to_bytes(DNSHdr_new(req.id, ResponseFlags(req.flags, RCode_NotImplemted),
                        req.queries, <<>>))

\* An upstream query asking for recursion (rd = 1).
UpstreamQuery_RD(id, name) ==
    to_bytes(DNSHdr_new(id,
        [qr |-> 0, opcode |-> QUERY, aa |-> 0, tc |-> 0, rd |-> 1, ra |-> 0, rcode |-> 0],
        <<[name |-> name, qtype |-> RRType_A, qclass |-> RRClass_IN]>>, <<>>))

\* The request Resolver::resolve_a sends for a name (lines 23-38).
UpstreamQuery(id, name) ==
    to_bytes(DNSHdr_new(id,
        [qr |-> 0, opcode |-> QUERY, aa |-> 0, tc |-> 0, rd |-> 0, ra |-> 0, rcode |-> 0],
        <<[name |-> name, qtype |-> RRType_A, qclass |-> RRClass_IN]>>, <<>>))

\* A resolve_a that answers (0, 0.0.0.0) where it has nothing to return.
ResolveReply_Default(r) ==
    LET a == from_bytes(r) IN
    IF a.ok /\ Len(a.val.answers) > 0 /\ Len(a.val.answers[1].rddata) >= 4
    THEN [ok |-> TRUE, ttl |-> a.val.answers[1].ttl,
          ip |-> Take(a.val.answers[1].rddata, 4)]
    ELSE [ok |-> TRUE, ttl |-> U32(0, 0), ip |-> <<0, 0, 0, 0>>]

\* What resolve_a makes of the datagram it received (lines 50-71): Ok((ttl, ip)),
\* or a failure: Err("Resolver failed") for a reply that does not decode, a
\* panic for answers[0] of no answer or rddata[3] of a short rdata. The caller
\* unwraps the result, so each failure ends the process.
ResolveReply(r) ==
    LET a == from_bytes(r) IN
    IF ~a.ok THEN Err
    ELSE IF Len(a.val.answers) = 0 THEN Err
    ELSE IF Len(a.val.answers[1].rddata) < 4 THEN Err
    ELSE [ok |-> TRUE, ttl |-> a.val.answers[1].ttl,
          ip |-> Take(a.val.answers[1].rddata, 4)]

-----------------------------------------------------------------------------
(* The datagrams of the model.                                             *)

\* The values of a u16, the type of DNSHdr.id: what rng.gen() of line 23 draws.
U16 == 0..65535

\* A datagram without the two bytes DNSHdr::to_bytes writes first, the id.
\* resolve_a writes the drawn id there and reads it nowhere (the reply's id is
\* not compared with it), so the datagram from byte 2 on is all of the query
\* that the server's behaviour can depend on.
AfterId(dgram) == Drop(dgram, 2)

\* The datagram that has `id` in its first two bytes and `body` after them.
WithId(id, body) == put_u16(id) \o body

\* The ids the actions build the upstream query with: the two ends of the u16
\* range, and two ids whose high and low bytes differ, one each way.  The
\* query differs between ids in bytes 0-1 only (IdBytesOnly, over all of U16),
\* and `upstream` keeps it from byte 2 on: the step is the same for every id.
UpstreamIds == {0, 1, 256, 65535}

Q(name, t, c) == [name |-> name, qtype |-> t, qclass |-> c]

NameCodecrafters == <<<<99, 111, 100, 101, 99, 114, 97, 102, 116, 101, 114, 115>>, <<105, 111>>>>
NameStackoverflow ==
    <<<<115, 116, 97, 99, 107, 111, 118, 101, 114, 102, 108, 111, 119>>, <<99, 111, 109>>>>
NameExample == <<<<101, 120, 97, 109, 112, 108, 101>>, <<99, 111, 109>>>>
\* A first label that is not UTF-8: domain() drops it and the key is "com".
NameBadUtf8 == <<<<255>>, <<99, 111, 109>>>>

ExampleCom == <<101, 120, 97, 109, 112, 108, 101, 46, 99, 111, 109>>

\* The questions of the requests with up to MaxQuestions questions: an
\* absent domain, and another absent domain asked with type MX, class CH under
\* a name whose first label is dropped from the key.
ServerQuestions == { Q(NameExample, 1, 1), Q(NameBadUtf8, 15, 3) }

\* Requests that name a seeded domain other than codecrafters.io, alone and
\* next to an absent one.
MixedQuestions ==
    { <<Q(NameStackoverflow, 1, 1)>>,
      <<Q(NameStackoverflow, 1, 1), Q(NameExample, 1, 1)>>,
      <<Q(NameExample, 1, 1), Q(NameStackoverflow, 1, 1)>> }

Fl(qr, opcode, aa, tc, rd, ra, rcode) ==
    [qr |-> qr, opcode |-> opcode, aa |-> aa, tc |-> tc, rd |-> rd, ra |-> ra,
     rcode |-> rcode]

PlainQuery == Fl(0, 0, 0, 0, 1, 0, 0)

RequestFlags == { PlainQuery, Fl(1, 0, 1, 1, 0, 1, 3),
                  Fl(0, 1, 0, 0, 1, 0, 0), Fl(1, 15, 1, 1, 0, 1, 5) }

\* Plain queries with up to MaxQuestions questions, and single-question
\* requests with every flag shape, an answer section and non-zero NSCOUNT and
\* ARCOUNT.
RequestMessages ==
    { DNSHdr_new(4660, PlainQuery, qs, <<>>) :
        qs \in SeqsUpTo(ServerQuestions, MaxQuestions) \cup MixedQuestions }
    \cup
    { [id |-> 43981, flags |-> f, nscount |-> 3, arcount |-> 2, queries |-> <<q>>,
       answers |-> <<Answer_new(NameExample, 1, 1, U32(0, 5), <<9, 9, 9, 9>>)>>] :
        f \in RequestFlags, q \in {Q(NameCodecrafters, 1, 1), Q(NameExample, 1, 1)} }

\* Datagrams no DNSHdr::from_bytes accepts: nothing, a short header, a header
\* announcing a question that is not there, a label running past the end.
Malformed ==
    { <<>>, <<18, 52, 1, 0, 0, 1>>,
      <<18, 52, 1, 0, 0, 1, 0, 0, 0, 0, 0, 0>>,
      <<18, 52, 1, 0, 0, 1, 0, 0, 0, 0, 0, 0, 7, 101, 120, 0, 0, 1, 0, 1>> }

Datagrams == { to_bytes(m) : m \in RequestMessages } \cup Malformed

ReplyAnswer(ttl, data) == Answer_new(NameExample, 1, 1, ttl, data)

ReplyFlags == Fl(1, 0, 0, 0, 0, 1, 0)

\* What the upstream resolver may answer: one answer; two answers, the first
\* with an rdata of five bytes; no answer; an rdata of two bytes; and bytes
\* that do not decode.
Replies ==
    { to_bytes(DNSHdr_new(1, ReplyFlags, <<>>, <<ReplyAnswer(U32(0, 300), <<8, 8, 8, 8>>)>>)),
      to_bytes(DNSHdr_new(2, ReplyFlags, <<Q(NameExample, 1, 1)>>,
                          <<ReplyAnswer(U32(1, 0), <<1, 2, 3, 4, 5>>),
                            ReplyAnswer(U32(0, 7), <<7, 7, 7, 7>>)>>)),
      to_bytes(DNSHdr_new(4, Fl(1, 0, 0, 0, 0, 1, 3), <<Q(NameExample, 1, 1)>>, <<>>)),
      to_bytes(DNSHdr_new(5, ReplyFlags, <<>>, <<ReplyAnswer(U32(0, 300), <<8, 8>>)>>)),
      <<0, 5, 129, 128, 0, 1>> }

-----------------------------------------------------------------------------
(* DNSServer::start, one action per blocking receive.                      *)

InitServer ==
    /\ pc = "recv"
    /\ resolver \in BOOLEAN
    /\ rr_db = SeedDb
    /\ inbox = NoDatagram /\ request = NoMsg
    /\ todo = <<>> /\ ans = <<>> /\ upstream = <<>> /\ replies = <<>> /\ outbox = <<>>
    /\ CodecOff /\ DecompOff /\ FlagsOff

\* socket.send_to(&response, source).expect(..): the response is handed to the
\* socket; the loop goes on, or the send fails and the expect panics.
SendResponse(resp) ==
    /\ outbox' = resp
    /\ pc' \in {"recv", "panicked"}

\* Lines 146-181 once `ans` is complete: extend the store, assemble, respond.
Finish(req, as) ==
    /\ rr_db' = Extend(rr_db, as)
    /\ SendResponse(OkResponse(req, AnswersFromDb(req.queries, Extend(rr_db, as))))

\* resolve_a up to its recv_from: a query with a random id is handed to the
\* resolver socket for the name of q; the server blocks for the reply, or
\* socket.send fails and the unwrap of line 143 panics.
StartResolve(q, sofar) ==
    /\ \E id \in UpstreamIds :
          upstream' = Append(sofar, AfterId(UpstreamQuery(id, q.name)))
    /\ pc' \in {"resolving", "panicked"}

\* The loop body from recv_from returning Ok((size, source)) to the next
\* blocking call.
Recv(d) ==
    /\ pc = "recv"
    /\ inbox' = d
    /\ LET r == from_bytes(d) IN
       IF ~r.ok
       THEN /\ pc' = "recv" /\ request' = NoMsg /\ outbox' = <<>>
            /\ upstream' = <<>> /\ replies' = <<>> /\ todo' = <<>> /\ ans' = <<>>
            /\ UNCHANGED rr_db
       ELSE LET req == r.val IN
            /\ request' = [ok |-> TRUE, val |-> req]
            /\ ans' = <<>> /\ replies' = <<>>
            /\ IF req.flags.opcode # QUERY
               THEN /\ SendResponse(NotImplResponse(req))
                    /\ upstream' = <<>> /\ todo' = <<>>
                    /\ UNCHANGED rr_db
               ELSE IF ~resolver
               THEN /\ SendResponse(OkResponse(req, AnswersNoResolver(req.queries, rr_db)))
                    /\ upstream' = <<>> /\ todo' = <<>>
                    /\ UNCHANGED rr_db
               ELSE LET un == Unresolved(req.queries, rr_db) IN
                    /\ todo' = un
                    /\ IF un = <<>>
                       THEN /\ upstream' = <<>>
                            /\ Finish(req, <<>>)
                       ELSE /\ outbox' = <<>>
                            /\ StartResolve(Head(un), <<>>)
                            /\ UNCHANGED rr_db
    /\ UNCHANGED resolver
    /\ UNCHANGED cvars /\ UNCHANGED dvars /\ UNCHANGED fvars

\* resolver.socket.recv_from returns the datagram r: the rest of resolve_a,
\* then the next question of the filter, or the end of the request.
UpstreamReply(r) ==
    /\ pc = "resolving"
    /\ replies' = Append(replies, r)
    /\ LET res == ResolveReply(r) IN
       IF ~res.ok
       THEN /\ pc' = "panicked"
            /\ UNCHANGED <<rr_db, todo, ans, upstream, outbox>>
       ELSE LET as == Append(ans, [q |-> Head(todo), ttl |-> res.ttl, ip |-> res.ip]) IN
            /\ ans' = as
            /\ todo' = Tail(todo)
            /\ IF Tail(todo) = <<>>
               THEN /\ Finish(request.val, as)
                    /\ UNCHANGED upstream
               ELSE /\ StartResolve(Head(Tail(todo)), upstream)
                    /\ UNCHANGED <<rr_db, outbox>>
    /\ UNCHANGED <<resolver, inbox, request>>
    /\ UNCHANGED cvars /\ UNCHANGED dvars /\ UNCHANGED fvars

\* resolver.socket.recv_from fails: resolve_a returns the error, unwrap panics.
UpstreamError ==
    /\ pc = "resolving"
    /\ pc' = "panicked"
    /\ UNCHANGED <<resolver, rr_db, inbox, request, todo, ans, upstream, replies, outbox>>
    /\ UNCHANGED cvars /\ UNCHANGED dvars /\ UNCHANGED fvars

\* socket.recv_from fails (lines 204-207): the loop breaks and start returns.
RecvError ==
    /\ pc = "recv"
    /\ pc' = "stopped"
    /\ inbox' = NoDatagram
    /\ UNCHANGED <<resolver, rr_db, request, todo, ans, upstream, replies, outbox>>
    /\ UNCHANGED cvars /\ UNCHANGED dvars /\ UNCHANGED fvars

Next ==
    \/ \E d \in Datagrams : Recv(d)
    \/ \E r \in Replies : UpstreamReply(r)
    \/ UpstreamError
    \/ RecvError

Spec == InitServer /\ [][Next]_vars

-----------------------------------------------------------------------------
(* Properties of DNSServer::start.                                         *)

Responded == outbox # <<>>
IsQueryRequest == request.ok /\ request.val.flags.opcode = QUERY
Response == from_bytes(outbox)

\* The step is the handling of a received datagram (or stutters after one).
RecvStep == pc = "recv" /\ pc' # "stopped" /\ inbox' # NoDatagram

StoredAnswer(q, db) ==
    Answer_new(q.name, 1, 1, db[domain(q)].ttl, db[domain(q)].data)

InStore(q) == domain(q) \in DOMAIN rr_db

\* C1: every question of a QUERY request whose domain is in the store when
\* the answers are assembled gets exactly one answer: type A, class IN, the
\* question's name, the ttl and rdata of the store entry of its domain.
C1_AnsweredFromOwnEntry ==
    (Responded /\ IsQueryRequest) =>
        LET hits == SelectSeq(request.val.queries, InStore)
            forHits == SelectSeq(Response.val.answers,
                                 LAMBDA a : \E k \in 1..Len(hits) : hits[k].name = a.name)
        IN  forHits = [k \in 1..Len(hits) |-> StoredAnswer(hits[k], rr_db)]

\* C2: without a resolver the response has no answer for a question whose
\* domain is not in the store.
C2_AbsentNotAnswered ==
    (Responded /\ IsQueryRequest /\ ~resolver) =>
        \A i \in 1..Len(Response.val.answers) :
            \E k \in 1..Len(request.val.queries) :
                /\ request.val.queries[k].name = Response.val.answers[i].name
                /\ InStore(request.val.queries[k])

\* C4: a decoded request with opcode # 0 is answered NotImplemented: rcode 4,
\* qr 1, aa 0, no answer, the request's id and questions; the store is left
\* alone and nothing is sent upstream.
C4_NotImplemented ==
    [][(RecvStep /\ request'.ok /\ request'.val.flags.opcode # QUERY) =>
          /\ outbox' # <<>>
          /\ LET r == from_bytes(outbox') IN
             /\ r.ok /\ r.rest = <<>>
             /\ r.val.flags.rcode = 4
             /\ r.val.flags.qr = 1
             /\ r.val.flags.aa = 0
             /\ r.val.answers = <<>>
             /\ r.val.id = request'.val.id
             /\ r.val.queries = request'.val.queries
          /\ rr_db' = rr_db
          /\ upstream' = <<>>
          /\ pc' # "resolving"]_vars

\* A request with opcode 15 for the absent example.com has been answered by a
\* server that has a resolver.
C4_Witness ==
    /\ resolver /\ Responded /\ request.ok
    /\ request.val.flags.opcode = 15
    /\ request.val.queries = <<Q(NameExample, 1, 1)>>

\* C5: the response to a QUERY has qr=1, aa=0, tc=0, ra=0, rcode=0, the
\* request's id, opcode and rd, the request's questions in order, NSCOUNT =
\* ARCOUNT = 0, and QDCOUNT and ANCOUNT entries exactly fill the datagram.
C5_QueryResponseHeader ==
    (Responded /\ IsQueryRequest) =>
        /\ Response.ok /\ Response.rest = <<>>
        /\ Response.val.flags =
              [qr |-> 1, opcode |-> request.val.flags.opcode, aa |-> 0, tc |-> 0,
               rd |-> request.val.flags.rd, ra |-> 0, rcode |-> 0]
        /\ Response.val.id = request.val.id
        /\ Response.val.queries = request.val.queries
        /\ SubSeq(outbox, 5, 6) = put_u16(Len(request.val.queries))
        /\ SubSeq(outbox, 7, 8) = put_u16(Len(Response.val.answers))
        /\ SubSeq(outbox, 9, 12) = <<0, 0, 0, 0>>

\* A QUERY whose header had qr, aa, tc, ra set, rcode 3 and non-zero counts
\* has been answered.
C5_Witness ==
    /\ Responded /\ IsQueryRequest
    /\ request.val.flags = Fl(1, 0, 1, 1, 0, 1, 3)
    /\ request.val.nscount = 3 /\ request.val.arcount = 2
    /\ Len(request.val.answers) = 1
    /\ Len(Response.val.answers) = 1

\* C9: a datagram that does not decode gets no response, changes neither the
\* store nor what is sent upstream, and leaves the server receiving, in the
\* state it had before the datagram.
C9_MalformedIgnored ==
    [][(RecvStep /\ (inbox' \in Malformed \/ ~from_bytes(inbox').ok)) =>
          /\ outbox' = <<>>
          /\ upstream' = <<>>
          /\ rr_db' = rr_db
          /\ resolver' = resolver
          /\ pc' = "recv"]_vars

\* A malformed datagram has arrived at a server whose store a forwarded
\* answer had extended, and the server is receiving again.
C9_Witness ==
    /\ inbox \in Malformed /\ inbox # <<>>
    /\ pc = "recv" /\ outbox = <<>>
    /\ ExampleCom \in DOMAIN rr_db

-----------------------------------------------------------------------------
(* Forwarding.                                                             *)

\* A step of the handling of one request: from the receipt of its datagram
\* to its response. In every such step rr_db, unprimed, is the store the
\* request found when it arrived.
HandlingStep ==
    \/ RecvStep /\ vars' # vars
    \/ pc = "resolving"

\* The step hands the response of a QUERY to the socket, resolver configured.
FinishStep ==
    /\ HandlingStep /\ resolver
    /\ outbox' # <<>>
    /\ request'.ok /\ request'.val.flags.opcode = QUERY

\* The question of the i-th upstream query (decoded under an id, which the
\* question does not depend on).
UpQuestion(up, i) == from_bytes(WithId(0, up[i])).val.queries[1]

\* What resolve_a is to return for the i-th reply: ttl and the four address bytes.
Replied(rs, i) ==
    LET a == from_bytes(rs[i]).val.answers[1] IN [ttl |-> a.ttl, data |-> Take(a.rddata, 4)]

\* The upstream queries, by position in `up`, that ask for the domain of q.
QueriesFor(up, q) ==
    { i \in 1..Len(up) : domain(UpQuestion(up, i)) = domain(q) }

\* The questions, by position in qs, that name the domain of q.
QuestionsFor(qs, q) ==
    { j \in 1..Len(qs) : domain(qs[j]) = domain(q) }

\* C3 as stated: with a resolver, a request for an absent domain causes
\* exactly one upstream query for it and the replied (ttl, address) is then
\* the store's entry; an entry, once there, stays as it is, and a request for
\* a domain that has an entry is answered with it and sends nothing upstream
\* for it.
C3_ForwardOnceThenCached ==
    [][/\ \A d \in DOMAIN rr_db : d \in DOMAIN rr_db' /\ rr_db'[d] = rr_db[d]
       /\ FinishStep =>
            LET qs == request'.val.queries
                resp == from_bytes(outbox').val
            IN  /\ Len(resp.answers) = Len(qs)
                /\ \A k \in 1..Len(qs) :
                     IF domain(qs[k]) \in DOMAIN rr_db
                     THEN /\ QueriesFor(upstream', qs[k]) = {}
                          /\ resp.answers[k] = StoredAnswer(qs[k], rr_db)
                     ELSE \E i \in 1..Len(upstream') :
                            /\ QueriesFor(upstream', qs[k]) = {i}
                            /\ rr_db'[domain(qs[k])] = Replied(replies', i)
                            /\ resp.answers[k] = StoredAnswer(qs[k], rr_db')
      ]_vars

\* C3, amended: with a resolver, a request for an absent domain causes one
\* upstream query for it per question of the request that names it (exactly
\* one when one question does), and the (ttl, address) of the last of their
\* replies is then the store's entry and the answer to each of those
\* questions; an entry, once there, stays as it is, and a request for a domain
\* that has an entry is answered with it and sends nothing upstream for it.
C3_ForwardPerQuestionThenCached ==
    [][/\ \A d \in DOMAIN rr_db : d \in DOMAIN rr_db' /\ rr_db'[d] = rr_db[d]
       /\ FinishStep =>
            LET qs == request'.val.queries
                resp == from_bytes(outbox').val
            IN  /\ Len(resp.answers) = Len(qs)
                /\ \A k \in 1..Len(qs) :
                     IF domain(qs[k]) \in DOMAIN rr_db
                     THEN /\ QueriesFor(upstream', qs[k]) = {}
                          /\ resp.answers[k] = StoredAnswer(qs[k], rr_db)
                     ELSE /\ Cardinality(QueriesFor(upstream', qs[k]))
                                = Cardinality(QuestionsFor(qs, qs[k]))
                          /\ \E i \in QueriesFor(upstream', qs[k]) :
                                /\ \A j \in QueriesFor(upstream', qs[k]) : j <= i
                                /\ rr_db'[domain(qs[k])] = Replied(replies', i)
                                /\ resp.answers[k] = StoredAnswer(qs[k], rr_db')
      ]_vars

\* example.com, resolved earlier to (65536, 1.2.3.4), has been asked again:
\* the answer carries the stored values and nothing was sent upstream.
C3_Witness ==
    /\ resolver /\ Responded /\ pc = "recv"
    /\ request.ok /\ request.val.queries = <<Q(NameExample, 1, 1)>>
    /\ request.val.flags.opcode = QUERY
    /\ upstream = <<>>
    /\ rr_db[ExampleCom] = [ttl |-> U32(1, 0), data |-> <<1, 2, 3, 4>>]
    /\ Response.val.answers[1].ttl = U32(1, 0)
    /\ Response.val.answers[1].rddata = <<1, 2, 3, 4>>

\* Whatever id rng.gen() draws, the query resolve_a builds is that id in two
\* bytes followed by bytes that do not depend on it.
IdBytesOnly ==
    \A name \in {NameExample, NameBadUtf8} : \A id \in U16 :
        UpstreamQuery(id, name) = WithId(id, AfterId(UpstreamQuery(0, name)))

\* An upstream query as resolve_a builds it for a name, given from its third
\* byte on: under any id it decodes to qr=0, opcode QUERY, rd=0 and one
\* question, type A, class IN.
IsUpstreamQueryFor(body, name) ==
    \A id \in UpstreamIds :
        LET u == from_bytes(WithId(id, body)) IN
        /\ u.ok /\ u.rest = <<>>
        /\ u.val.id = id
        /\ u.val.flags.qr = 0 /\ u.val.flags.opcode = 0 /\ u.val.flags.rd = 0
        /\ u.val.queries = <<[name |-> name, qtype |-> 1, qclass |-> 1]>>
        /\ u.val.answers = <<>>

\* C10 as stated: one request causes at most one upstream query per domain
\* (also when two questions name the same absent domain), none for a domain
\* in the store, each of the stated shape and each after the previous reply.
C10_OnePerDomain ==
    /\ pc \in {"recv", "resolving"} =>
        \A i, j \in 1..Len(upstream) :
          i # j => domain(UpQuestion(upstream, i)) # domain(UpQuestion(upstream, j))
    /\ \A i \in 1..Len(upstream) :
          \E k \in 1..Len(request.val.queries) :
              IsUpstreamQueryFor(upstream[i], request.val.queries[k].name)
    /\ pc = "resolving" =>
          /\ \A i \in 1..Len(upstream) : domain(UpQuestion(upstream, i)) \notin DOMAIN rr_db
          /\ Len(upstream) = Len(replies) + 1

\* C10, amended: one upstream query per question whose domain is absent from
\* the store the request found, in question order (a domain two questions name
\* is queried twice), none for a question whose domain is in it, each of the
\* stated shape whatever its id, never a second one before the reply to the
\* first, and all of them sent once the response is.
C10_OnePerUnresolvedQuestion ==
    [][HandlingStep =>
          LET un == IF request'.ok /\ resolver /\ request'.val.flags.opcode = QUERY
                    THEN Unresolved(request'.val.queries, rr_db)
                    ELSE <<>>
          IN  /\ IdBytesOnly
              /\ Len(upstream') <= Len(un)
              /\ \A i \in 1..Len(upstream') : IsUpstreamQueryFor(upstream'[i], un[i].name)
              /\ Len(replies') <= Len(upstream')
              /\ Len(upstream') <= Len(replies') + 1
              /\ pc' = "resolving" => Len(upstream') = Len(replies') + 1
              /\ outbox' # <<>> => Len(upstream') = Len(un) /\ Len(replies') = Len(un)
      ]_vars

\* A request asking example.com twice has been answered after two upstream
\* queries for example.com.
C10_Witness ==
    /\ resolver /\ Responded /\ pc = "recv"
    /\ request.ok
    /\ request.val.queries = <<Q(NameExample, 1, 1), Q(NameExample, 1, 1)>>
    /\ Len(upstream) = 2 /\ Len(replies) = 2
    /\ UpQuestion(upstream, 1).name = NameExample
    /\ UpQuestion(upstream, 2).name = NameExample

-----------------------------------------------------------------------------
(* Failed resolution, and the growth of the store.                         *)

\* A reply resolve_a returns no Ok((ttl, ip)) for: it does not decode
\* (Err("Resolver failed")), has no answer record (answers[0] panics) or its
\* first answer has fewer than four rdata bytes (the rddata index panics).
FailedReply(r) ==
    \/ ~from_bytes(r).ok
    \/ Len(from_bytes(r).val.answers) = 0
    \/ Len(from_bytes(r).val.answers[1].rddata) < 4

\* The step is the end of a resolve_a that fails, in the unwrap of line 143:
\* its recv_from returned a reply that cannot be used; or the process ends
\* with a query handed to the resolver socket and not replied to, which is a
\* socket.send that failed or a recv_from that returned an error.
ResolutionFails ==
    \/ /\ pc = "resolving"
       /\ replies' # replies /\ FailedReply(replies'[Len(replies')])
    \/ /\ pc \in {"recv", "resolving"} /\ pc' = "panicked"
       /\ Len(upstream') = Len(replies') + 1

\* C13: when the resolution of a question fails, nothing is handed to the
\* client socket for the request, no query for a further question is sent
\* upstream, the store is left as the request found it (the domains of the
\* questions resolved before the failure are not in it), and no step follows:
\* no response ever is sent.
C13_FailedResolutionAborts ==
    [][/\ ResolutionFails =>
            /\ pc' = "panicked"
            /\ outbox' = <<>>
            /\ Len(upstream') <= Len(replies') + 1
            /\ (pc = "resolving" /\ Len(upstream') = Len(replies')) => upstream' = upstream
            /\ rr_db' = rr_db
            /\ \A k \in 1..Len(ans') : domain(ans'[k].q) \notin DOMAIN rr_db'
       /\ pc = "panicked" => UNCHANGED vars
      ]_vars

\* The first question of a request was resolved, the reply for the second one
\* had no usable answer: the process is gone, no response was sent and
\* example.com is not in the store.
C13_Witness ==
    /\ pc = "panicked" /\ resolver
    /\ Len(request.val.queries) = 2
    /\ Len(ans) = 1 /\ domain(ans[1].q) = ExampleCom
    /\ Len(replies) = 2 /\ FailedReply(replies[2])
    /\ outbox = <<>>
    /\ ExampleCom \notin DOMAIN rr_db

\* C14: every step keeps every entry of the store with its (ttl, address),
\* the seed entries included, and without a resolver the store never changes.
C14_StoreOnlyGrows ==
    [][/\ \A d \in DOMAIN rr_db : d \in DOMAIN rr_db' /\ rr_db'[d] = rr_db[d]
       /\ \A d \in DOMAIN SeedDb : d \in DOMAIN rr_db' /\ rr_db'[d] = SeedDb[d]
       /\ ~resolver => rr_db' = rr_db
      ]_vars

\* The store has grown by two forwarded domains and still holds the seed
\* entries, after a later request for one of the forwarded domains was
\* answered without an upstream query.
C14_Witness ==
    /\ resolver /\ pc = "recv" /\ Responded
    /\ DOMAIN rr_db = {CodecraftersIo, StackoverflowCom, ExampleCom, <<99, 111, 109>>}
    /\ rr_db[CodecraftersIo] = [ttl |-> U32(0, SeedTtl), data |-> <<192, 168, 10, 10>>]
    /\ rr_db[StackoverflowCom] = [ttl |-> U32(0, SeedTtl), data |-> <<192, 168, 10, 20>>]
    /\ request.ok /\ request.val.queries = <<Q(NameExample, 1, 1)>>
    /\ request.val.flags.opcode = QUERY
    /\ upstream = <<>>

-----------------------------------------------------------------------------
(* DNSHdr::decompress_names, one loop iteration per step, followed by       *)
(* Query::from_bytes on the questions of the decompressed buffer, as        *)
(* tests::test_query_decode chains them; and DNSHdr::from_bytes on the same *)
(* buffer, which is how the server decodes.                                 *)

\* The offset without the mask of the two tag bits.
PtrOffset_NoMask(b, b_l) == b * 256 + b_l

\* ((b & 0b0011_1111) as u16) << 8) + b_l as u16
PtrOffset(b, b_l) == BitAnd(b, 63) * 256 + b_l

\* slice.split(|&b| b == 0x00).next(): the bytes before the first zero byte.
UntilZero(i) ==
    LET zeros == { k \in 1..Len(i) : i[k] = 0 } IN
    IF zeros = {} THEN i
    ELSE Take(i, (CHOOSE k \in zeros : \A j \in zeros : k <= j) - 1)

Panic == [kind |-> "panic"]
Failed == [kind |-> "err"]
Returned(v) == [kind |-> "ok", val |-> v]

\* The buffer of tests::test_query_decode: abc.longassdomainname.com at offset
\* 12, then def followed by a pointer to offset 16.
TestBuf ==
    << 212, 158, 1, 0, 0, 2, 0, 0, 0, 0, 0, 0, 3, 97, 98, 99, 17, 108, 111, 110, 103, 97, 115,
       115, 100, 111, 109, 97, 105, 110, 110, 97, 109, 101, 3, 99, 111, 109, 0, 0, 1, 0, 1, 3,
       100, 101, 102, 192, 16, 0, 1, 0, 1 >>

LAbc == <<97, 98, 99>>
LDef == <<100, 101, 102>>
LCom == <<99, 111, 109>>
LLongassdomainname ==
    <<108, 111, 110, 103, 97, 115, 115, 100, 111, 109, 97, 105, 110, 110, 97, 109, 101>>

TestHeader == <<212, 158, 1, 0, 0, 2, 0, 0, 0, 0, 0, 0>>

RECURSIVE LabelsToBytes(_)
LabelsToBytes(ls) ==
    IF ls = <<>> THEN <<>> ELSE LabelToBytes(Head(ls)) \o LabelsToBytes(Tail(ls))

\* Two questions: `first` written in full at offset 12, then the labels `own`
\* followed by a pointer to the t-th label of `first`.
PointerCase(first, own, t) ==
    LET off == DNS_HDR_SIZE + Len(LabelsToBytes(Take(first, t - 1))) IN
    [buf |-> TestHeader \o NameToBytes(first) \o <<0, 1, 0, 1>>
               \o LabelsToBytes(own) \o <<192 + (off \div 256), off % 256>> \o <<0, 1, 0, 1>>,
     names |-> <<first, own \o Drop(first, t - 1)>>]

PointerCases ==
    UNION { { PointerCase(first, own, t) : t \in 1..Len(first) } :
              first \in { <<LAbc, LLongassdomainname, LCom>>, <<LCom>> },
              own \in { <<LDef>>, <<>>, <<LDef, LAbc>> } }

\* Three questions: abc followed by a pointer to the third (offset 32), def
\* followed by a pointer to the first (offset 12), and com written in full.
\* The name found at offset 12 is abc.com, itself ending in a pointer.
ChainedCase ==
    [buf |-> <<212, 158, 1, 0, 0, 3, 0, 0, 0, 0, 0, 0>>
               \o LabelsToBytes(<<LAbc>>) \o <<192, 32>> \o <<0, 1, 0, 1>>
               \o LabelsToBytes(<<LDef>>) \o <<192, 12>> \o <<0, 1, 0, 1>>
               \o NameToBytes(<<LCom>>) \o <<0, 1, 0, 1>>,
     names |-> <<<<LAbc, LCom>>, <<LDef, LAbc, LCom>>>>]

\* Two questions: a name whose first label holds a zero byte, written in full
\* at offset 12, then def followed by a pointer to offset 12.
ZeroLabelCase ==
    [buf |-> TestHeader \o NameToBytes(<<<<97, 0>>, LCom>>) \o <<0, 1, 0, 1>>
               \o LabelsToBytes(<<LDef>>) \o <<192, 12>> \o <<0, 1, 0, 1>>,
     names |-> <<<<<<97, 0>>, LCom>>, <<LDef, <<97, 0>>, LCom>>>>]

\* Offset 12 points to offset 14, which points back to offset 12: alone, with
\* the type and class of a question, and followed by enough bytes for the
\* 192 that the first pointer byte is when read as a label length.
CycleBufs ==
    LET head == <<0, 7, 1, 0, 0, 1, 0, 0, 0, 0, 0, 0, 192, 14, 192, 12>> IN
    { head, head \o <<0, 1, 0, 1>> }
    \cup { head \o Fill(189, pad) \o <<0, 0, 1, 0, 1>> : pad \in {1, 97} }

MaxTail == 3

\* Every buffer made of a header announcing one question and up to MaxTail
\* bytes that are a terminator, label lengths or a pointer byte.
SmallBufs ==
    { <<0, 7, 1, 0, 0, 1, 0, 0, 0, 0, 0, 0>> \o t : t \in SeqsUpTo({0, 1, 12, 192}, MaxTail) }

DecompBufs ==
    {TestBuf} \cup { c.buf : c \in PointerCases } \cup {ChainedCase.buf, ZeroLabelCase.buf}
    \cup CycleBufs \cup SmallBufs
    \cup { <<>>, <<0, 7, 1, 0, 0, 1>> }

IsCycleBuf(b) ==
    /\ Len(b) >= 16
    /\ SubSeq(b, 13, 16) = <<192, 14, 192, 12>>

InitDecomp ==
    /\ buf \in DecompBufs
    /\ ptr = 0 /\ debuf = <<>> /\ dpc = "start" /\ steps = 0 /\ names = NoDec
    /\ ServerOff /\ CodecOff /\ FlagsOff

\* Lines 143-147: the header is copied, a slice of 12 bytes that panics when
\* the buffer is shorter.
DecompStart ==
    /\ dpc = "start"
    /\ IF Len(buf) < DNS_HDR_SIZE
       THEN dpc' = "done" /\ names' = Panic /\ UNCHANGED <<ptr, debuf>>
       ELSE dpc' = "loop" /\ debuf' = Take(buf, DNS_HDR_SIZE) /\ ptr' = DNS_HDR_SIZE
            /\ UNCHANGED names
    /\ UNCHANGED <<buf, steps>>
    /\ UNCHANGED svars /\ UNCHANGED cvars /\ UNCHANGED fvars

\* Lines 152-165: any of the two top bits set.
DecompPointer ==
    /\ dpc = "loop" /\ ptr < Len(buf)
    /\ BitAnd(buf[ptr + 1], 192) # 0
    /\ steps' = steps + 1
    /\ IF ptr + 1 >= Len(buf)
       THEN dpc' = "done" /\ names' = Panic /\ UNCHANGED <<ptr, debuf>>
       ELSE LET ptr_offset == PtrOffset(buf[ptr + 1], buf[ptr + 2]) IN
            IF ~(ptr_offset < Len(buf))
            THEN dpc' = "done" /\ names' = Failed /\ UNCHANGED <<ptr, debuf>>
            ELSE IF ptr + 2 + 4 > Len(buf)
            THEN dpc' = "done" /\ names' = Panic /\ UNCHANGED <<ptr, debuf>>
            ELSE /\ debuf' = debuf \o UntilZero(Drop(buf, ptr_offset)) \o <<0>>
                                \o SubSeq(buf, ptr + 3, ptr + 6)
                 /\ ptr' = ptr + 6
                 /\ UNCHANGED <<dpc, names>>
    /\ UNCHANGED buf
    /\ UNCHANGED svars /\ UNCHANGED cvars /\ UNCHANGED fvars

\* Lines 166-169: the terminator, then the four bytes of type and class.
DecompZero ==
    /\ dpc = "loop" /\ ptr < Len(buf)
    /\ buf[ptr + 1] = 0
    /\ steps' = steps + 1
    /\ IF ptr + 1 + 4 > Len(buf)
       THEN dpc' = "done" /\ names' = Panic /\ UNCHANGED <<ptr, debuf>>
       ELSE /\ debuf' = debuf \o <<0>> \o SubSeq(buf, ptr + 2, ptr + 5)
            /\ ptr' = ptr + 5
            /\ UNCHANGED <<dpc, names>>
    /\ UNCHANGED buf
    /\ UNCHANGED svars /\ UNCHANGED cvars /\ UNCHANGED fvars

\* Lines 170-174: a label of b bytes.
DecompLabel ==
    /\ dpc = "loop" /\ ptr < Len(buf)
    /\ BitAnd(buf[ptr + 1], 192) = 0 /\ buf[ptr + 1] # 0
    /\ steps' = steps + 1
    /\ LET b == buf[ptr + 1] IN
       IF ptr + 1 + b > Len(buf)
       THEN dpc' = "done" /\ names' = Panic /\ UNCHANGED <<ptr, debuf>>
       ELSE /\ debuf' = debuf \o <<b>> \o SubSeq(buf, ptr + 2, ptr + 1 + b)
            /\ ptr' = ptr + 1 + b
            /\ UNCHANGED <<dpc, names>>
    /\ UNCHANGED buf
    /\ UNCHANGED svars /\ UNCHANGED cvars /\ UNCHANGED fvars

\* Line 179: the loop is over, Ok(debuf) is returned.
DecompReturn ==
    /\ dpc = "loop" /\ ~(ptr < Len(buf))
    /\ dpc' = "returned"
    /\ UNCHANGED <<buf, ptr, debuf, steps, names>>
    /\ UNCHANGED svars /\ UNCHANGED cvars /\ UNCHANGED fvars

\* Line 429: Query::from_bytes(&buf[DNS_HDR_SIZE..], 2).unwrap() on the
\* decompressed buffer. The count is the literal 2, whatever the header says,
\* and an Err makes the unwrap panic.
ParseNames ==
    /\ dpc = "returned"
    /\ LET qs == Query_from_bytes(Drop(debuf, DNS_HDR_SIZE), 2) IN
       names' = IF qs.ok THEN Returned([k \in 1..Len(qs.val) |-> qs.val[k].name])
                ELSE Panic
    /\ dpc' = "done"
    /\ UNCHANGED <<buf, ptr, debuf, steps>>
    /\ UNCHANGED svars /\ UNCHANGED cvars /\ UNCHANGED fvars

\* DNSHdr::from_bytes on the buffer as received (dns_server.rs line 109).
DirectDecode ==
    /\ decoded = NoDec
    /\ decoded' = from_bytes(buf)
    /\ UNCHANGED <<msg, wire>>
    /\ UNCHANGED svars /\ UNCHANGED dvars /\ UNCHANGED fvars

NextDecomp ==
    \/ DecompStart
    \/ DecompPointer
    \/ DecompZero
    \/ DecompLabel
    \/ DecompReturn
    \/ ParseNames
    \/ DirectDecode

SpecDecomp == InitDecomp /\ [][NextDecomp]_vars

-----------------------------------------------------------------------------
(* Properties of the name decompression.                                   *)

NameAbcLongCom == <<LAbc, LLongassdomainname, LCom>>

\* C7, its general sentence: a name that ends in a pointer decodes to its own
\* labels followed by the labels of the name found at the pointer's offset,
\* also when that name ends in a pointer itself or has a zero byte in a label.
C7_PointerSplicesName ==
    \A c \in PointerCases \cup {ChainedCase, ZeroLabelCase} :
        (buf = c.buf /\ dpc = "done") => names = Returned(c.names)

\* C7, its example as written: in the test buffer the name def + pointer to
\* offset 16 decodes to [def, abc, longassdomainname, com].
C7_PointerTo16GivesAbc ==
    (buf = TestBuf /\ dpc = "done") =>
        names = Returned(<<NameAbcLongCom, <<LDef>> \o NameAbcLongCom>>)

\* C7, what the code does do: when the bytes from the pointer's offset to the
\* first zero byte are whole labels, the name decodes to its own labels
\* followed by those; in the test buffer offset 16 is where the second label
\* starts, so the names are [abc, longassdomainname, com] and
\* [def, longassdomainname, com].
C7_PointerSplicesSuffix ==
    /\ (buf = TestBuf /\ dpc = "done") =>
          names = Returned(<<NameAbcLongCom, <<LDef, LLongassdomainname, LCom>>>>)
    /\ \A c \in PointerCases :
          (buf = c.buf /\ dpc = "done") => names = Returned(c.names)

\* The test buffer has been decompressed and its two names parsed.
C7_Witness ==
    /\ buf = TestBuf /\ dpc = "done" /\ names.kind = "ok"
    /\ Len(names.val) = 2

\* C8: decoding takes at most as many steps as the buffer has bytes, and a
\* buffer whose pointers at offsets 12 and 14 point to each other never
\* decodes to a name, neither through DNSHdr::from_bytes nor through
\* decompress_names.
C8_CycleIsRejected ==
    /\ steps <= Len(buf)
    /\ IsCycleBuf(buf) =>
          /\ decoded # NoDec => ~decoded.ok
          /\ dpc = "done" => names.kind # "ok"

-----------------------------------------------------------------------------
(* Flags::compress_u16, then Flags::parse_flags on the two bytes of the     *)
(* word, most significant byte first (as to_bytes writes and from_bytes     *)
(* reads them).                                                            *)

\* Every Flags whose fields are within their bit-widths.
InRangeFlags ==
    [qr : 0..1, opcode : 0..15, aa : 0..1, tc : 0..1, rd : 0..1, ra : 0..1, rcode : 0..15]

\* Flags whose u8 fields also hold values beyond their bit-widths.
WideFlags ==
    [qr : {0, 1, 2, 255}, opcode : {0, 15, 16, 255}, aa : {0, 1, 2, 255},
     tc : {0, 1, 2, 255}, rd : {0, 1, 3, 255}, ra : {0, 1, 2, 255},
     rcode : {0, 15, 16, 112, 255}]

FlagValues == InRangeFlags \cup WideFlags

InitFlags ==
    /\ fval \in FlagValues /\ word = -1 /\ unpacked = NoDec
    /\ ServerOff /\ CodecOff /\ DecompOff

Pack ==
    /\ word = -1
    /\ word' = compress_u16(fval)
    /\ UNCHANGED <<fval, unpacked>>
    /\ UNCHANGED svars /\ UNCHANGED cvars /\ UNCHANGED dvars

Unpack ==
    /\ word # -1 /\ unpacked = NoDec
    /\ unpacked' = parse_flags(put_u16(word))
    /\ UNCHANGED <<fval, word>>
    /\ UNCHANGED svars /\ UNCHANGED cvars /\ UNCHANGED dvars

NextFlags == Pack \/ Unpack

SpecFlags == InitFlags /\ [][NextFlags]_vars

\* C11: for Flags within their bit-widths the packed word has qr at bit 15,
\* opcode at bits 14-11, aa, tc, rd, ra at bits 10, 9, 8, 7, rcode at bits 3-0
\* and nothing else, and unpacking it gives back the same seven fields.
C11_FlagsRoundTrip ==
    fval \in InRangeFlags =>
        /\ word # -1 =>
              word = fval.qr * 32768 + fval.opcode * 2048 + fval.aa * 1024
                       + fval.tc * 512 + fval.rd * 256 + fval.ra * 128 + fval.rcode
        /\ unpacked # NoDec =>
              /\ unpacked.ok /\ unpacked.rest = <<>>
              /\ unpacked.val = fval

\* The Flags with every field at its largest in-range value has been packed
\* and unpacked.
C11_Witness ==
    /\ unpacked # NoDec
    /\ fval = [qr |-> 1, opcode |-> 15, aa |-> 1, tc |-> 1, rd |-> 1, ra |-> 1,
               rcode |-> 15]
    /\ word = 65423

\* C12: whatever the u8 fields hold, the packed word has 0 in bits 6-4, and
\* every field that is within its bit-width appears unchanged at its own bits
\* (no out-of-range field changes the bits of another one).
C12_ReservedZeroAndNoSpill ==
    word # -1 =>
        /\ (word \div 16) % 8 = 0
        /\ fval.qr \in 0..1 => word \div 32768 = fval.qr
        /\ fval.opcode \in 0..15 => (word \div 2048) % 16 = fval.opcode
        /\ fval.aa \in 0..1 => (word \div 1024) % 2 = fval.aa
        /\ fval.tc \in 0..1 => (word \div 512) % 2 = fval.tc
        /\ fval.rd \in 0..1 => (word \div 256) % 2 = fval.rd
        /\ fval.ra \in 0..1 => (word \div 128) % 2 = fval.ra
        /\ fval.rcode \in 0..15 => word % 16 = fval.rcode

====
